---------------------------- MODULE Spec2Model ----------------------------
(***************************************************************************)
(* Model of the two utilities of the repository:                           *)
(*   - app/bot/payment_gateways/yookassa.py : Yookassa.webhook_handler and *)
(*     the helpers it calls;                                               *)
(*   - scripts/generate_legacy_promocodes.py : the legacy promocode        *)
(*     generator (collect_legacy_clients, generate_code, main).            *)
(* Text is modelled as a sequence of one-character strings.                *)
(***************************************************************************)
EXTENDS Integers, Sequences, FiniteSets, TLC

VARIABLES
    pc,         \* position of the webhook request: "idle", "received", "done"
    request,    \* the webhook request being handled and what its collaborators answer
    response,   \* HTTP status returned by webhook_handler (0: none yet)
    trace,      \* calls webhook_handler made to its collaborators, in order
    prev,       \* the previous delivery of the same notification and its outcome
    gpc,        \* position of the generator script
    args,       \* the parsed command-line arguments
    xui_db,     \* source store rows read by collect_legacy_clients, in order
    selected,   \* collect_legacy_clients: the dict email -> row, in insertion order
    skipped,    \* collect_legacy_clients: the skipped list
    log,        \* what each loop iteration of collect_legacy_clients did, in order
    last,       \* the latest direct call of normalize_days and its result
    prepared,   \* main: the sorted rows, each given its promocode in turn
    existing_codes, \* main: the set load_existing_codes returned, grown by generate_code
    bot_db,     \* target store: the rows of the promocodes table
    bot_db0,    \* the promocodes table as it was when the script started
    csv         \* rows written by write_csv (below the header)

whVars == <<pc, request, response, trace, prev>>
genVars == <<gpc, args, xui_db, selected, skipped, log, last, prepared, existing_codes,
             bot_db, bot_db0, csv>>
vars == <<whVars, genVars>>

None == "None"

(***************************************************************************)
(* Payment webhook adapter                                                 *)
(***************************************************************************)

\* Longest X-Forwarded-For header value drawn, in characters.
MaxHeaderLen == 2

\* WebhookNotificationEventType members a notification object can carry.
PAYMENT_SUCCEEDED == "payment.succeeded"
PAYMENT_CANCELED == "payment.canceled"
EventTypes ==
    {PAYMENT_SUCCEEDED, PAYMENT_CANCELED, "payment.waiting_for_capture", "refund.succeeded"}

\* response_object.id: absent (None), empty, or a provider payment id.
PaymentIds == {"p1", "p2"}
BodyIds == {None, ""} \cup PaymentIds

\* A request body: one that request.json() or WebhookNotificationFactory().create
\* raises on, or a notification with an event type and an object id.
Bodies ==
    {[parsable |-> FALSE, event |-> None, payment_id |-> None]}
    \cup [parsable : {TRUE}, event : EventTypes, payment_id : BodyIds]

\* Characters of an X-Forwarded-For value. An address literal is abstracted to one
\* character: "T" a well-formed address inside the SDK's trusted networks, "U" a
\* well-formed address outside them, "x" any other visible character.
HeaderChars == {",", " ", "T", "U", "x"}

RECURSIVE SeqsUpTo(_, _)
SeqsUpTo(S, n) ==
    IF n = 0 THEN {<<>>}
    ELSE LET shorter == SeqsUpTo(S, n - 1)
         IN  shorter \cup {Append(s, c) : s \in {t \in shorter : Len(t) = n - 1}, c \in S}

HeaderValues == SeqsUpTo(HeaderChars, MaxHeaderLen)

\* request.remote: None (the empty tuple) or the peer's address (a 1-tuple of text).
RemoteValues == {<<>>, << <<"T">> >>, << <<"U">> >>}

\* What Payment.find_one answers: it raises, or returns a payment whose status is a
\* plain string or an enum member (an object with .value), with a paid attribute
\* that may be missing.
RemoteStatuses == {"pending", "waiting_for_capture", "succeeded", "canceled"}
Lookups ==
    {[raises |-> TRUE, carrier |-> None, status |-> None, paid |-> None]}
    \cup [raises : {FALSE}, carrier : {"str", "enum"}, status : RemoteStatuses,
          paid : {"True", "False", None}]

Requests == [body : Bodies, x_forwarded_for : HeaderValues, remote : RemoteValues,
             lookup : Lookups]

\* str.split(",")[0]: the text before the first comma.
RECURSIVE FirstHop(_)
FirstHop(s) ==
    IF s = <<>> \/ Head(s) = "," THEN <<>> ELSE <<Head(s)>> \o FirstHop(Tail(s))

\* str.strip(): leading and trailing blanks removed.
RECURSIVE LStrip(_)
LStrip(s) == IF s # <<>> /\ Head(s) = " " THEN LStrip(Tail(s)) ELSE s

RECURSIVE RStrip(_)
RStrip(s) ==
    IF s # <<>> /\ s[Len(s)] = " " THEN RStrip(SubSeq(s, 1, Len(s) - 1)) ELSE s

Strip(s) == RStrip(LStrip(s))

\* Yookassa._extract_source_ip: the forwarding header's first hop when the header is
\* non-empty, else the socket address.
extract_source_ip(req) ==
    LET x_forwarded_for == req.x_forwarded_for
        remote_ip == IF req.remote = <<>> THEN <<>> ELSE req.remote[1]
        ip == IF x_forwarded_for # <<>> THEN Strip(FirstHop(x_forwarded_for)) ELSE remote_ip
    IN  [ip |-> ip, x_forwarded_for |-> x_forwarded_for, remote_ip |-> remote_ip]

\* SecurityHelper().is_ip_trusted(ip) as called at line 175: the SDK parses the text
\* as an address and tests it against its networks; text that is no address makes
\* the parse raise.
is_ip_trusted(ip) ==
    IF ip = <<"T">> THEN "trusted"
    ELSE IF ip = <<"U">> THEN "untrusted"
    ELSE "raises"

\* bool(source_ip) and SecurityHelper().is_ip_trusted(source_ip)
SourceIpTrusted(ip) == IF ip = <<>> THEN "untrusted" ELSE is_ip_trusted(ip)

\* str(value) of a status: the text itself, or for an enum member its qualified name.
Str(carrier, status) ==
    IF carrier = "str" THEN status
    ELSE CASE status = "pending" -> "PaymentStatus.PENDING"
           [] status = "waiting_for_capture" -> "PaymentStatus.WAITING_FOR_CAPTURE"
           [] status = "succeeded" -> "PaymentStatus.SUCCEEDED"
           [] status = "canceled" -> "PaymentStatus.CANCELED"
           [] OTHER -> status

\* str.lower() on the status vocabulary.
Lower(text) ==
    CASE text = "PaymentStatus.PENDING" -> "paymentstatus.pending"
      [] text = "PaymentStatus.WAITING_FOR_CAPTURE" -> "paymentstatus.waiting_for_capture"
      [] text = "PaymentStatus.SUCCEEDED" -> "paymentstatus.succeeded"
      [] text = "PaymentStatus.CANCELED" -> "paymentstatus.canceled"
      [] OTHER -> text

\* Yookassa._normalize_status: str(value.value).lower() when the value has a .value
\* attribute (an enum member), str(value).lower() otherwise.
normalize_status(lookup) ==
    IF lookup.carrier = "enum" THEN Lower(Str("str", lookup.status))
    ELSE Lower(Str(lookup.carrier, lookup.status))

\* bool(getattr(payment, "paid", False))
Paid(lookup) == lookup.paid = "True"

\* A confirmation that forgets the paid flag of a succeeded payment.
is_event_confirmed_by_api_IgnoresPaid(lookup, event) ==
    IF lookup.raises THEN FALSE
    ELSE LET status == normalize_status(lookup)
         IN  IF event = PAYMENT_SUCCEEDED THEN status = "succeeded"
             ELSE IF event = PAYMENT_CANCELED THEN status = "canceled"
             ELSE FALSE

\* Yookassa._is_event_confirmed_by_api, after Payment.find_one has answered.
is_event_confirmed_by_api(lookup, event) ==
    IF lookup.raises THEN FALSE
    ELSE LET status == normalize_status(lookup)
             paid == Paid(lookup)
         IN  IF event = PAYMENT_SUCCEEDED THEN status = "succeeded" /\ paid
             ELSE IF event = PAYMENT_CANCELED THEN status = "canceled"
             ELSE FALSE

find_one(payment_id) == [op |-> "find_one", payment_id |-> payment_id]
handle_payment_succeeded(payment_id) == [op |-> "handle_payment_succeeded", payment_id |-> payment_id]
handle_payment_canceled(payment_id) == [op |-> "handle_payment_canceled", payment_id |-> payment_id]

\* A dispatch that runs the cancellation update for every confirmed event.
Dispatch_AlwaysCancels(event, payment_id) ==
    IF event \in {PAYMENT_SUCCEEDED, PAYMENT_CANCELED}
    THEN [status |-> 200, calls |-> <<handle_payment_canceled(payment_id)>>]
    ELSE [status |-> 400, calls |-> <<>>]

\* The match statement of webhook_handler on a confirmed event.
Dispatch(event, payment_id) ==
    IF event = PAYMENT_SUCCEEDED
    THEN [status |-> 200, calls |-> <<handle_payment_succeeded(payment_id)>>]
    ELSE IF event = PAYMENT_CANCELED
    THEN [status |-> 200, calls |-> <<handle_payment_canceled(payment_id)>>]
    ELSE [status |-> 400, calls |-> <<>>]

\* Yookassa.webhook_handler as a function of the request: the status it returns and
\* the collaborator calls it makes, in order.
Handle(req) ==
    IF ~req.body.parsable
    THEN [status |-> 400, calls |-> <<>>]
    ELSE IF req.body.payment_id \in {None, ""}
    THEN [status |-> 400, calls |-> <<>>]
    ELSE LET src == extract_source_ip(req)
             payment_id == req.body.payment_id
             event == req.body.event
         IN  IF SourceIpTrusted(src.ip) = "raises"
             THEN [status |-> 400, calls |-> <<>>]
             ELSE IF ~is_event_confirmed_by_api(req.lookup, event)
             THEN [status |-> 403, calls |-> <<find_one(payment_id)>>]
             ELSE LET d == Dispatch(event, payment_id)
                  IN  [status |-> d.status, calls |-> <<find_one(payment_id)>> \o d.calls]

NoRequest ==
    [body |-> [parsable |-> FALSE, event |-> None, payment_id |-> None],
     x_forwarded_for |-> <<>>, remote |-> <<>>,
     lookup |-> [raises |-> TRUE, carrier |-> None, status |-> None, paid |-> None]]
NoPrev == [request |-> NoRequest, response |-> 0, trace |-> <<>>]

\* The generator script is not running.
GenIdle ==
    /\ gpc = "off"
    /\ args = <<>>
    /\ xui_db = <<>>
    /\ selected = <<>>
    /\ skipped = <<>>
    /\ log = <<>>
    /\ last = <<>>
    /\ prepared = <<>>
    /\ existing_codes = {}
    /\ bot_db = <<>>
    /\ bot_db0 = <<>>
    /\ csv = <<>>

\* No webhook request is in flight.
WebhookIdle ==
    /\ pc = "idle"
    /\ request = NoRequest
    /\ response = 0
    /\ trace = <<>>
    /\ prev = NoPrev

InitWebhook == WebhookIdle /\ GenIdle

\* A POST arrives on the webhook route.
Receive ==
    /\ pc = "idle"
    /\ \E req \in Requests : request' = req
    /\ pc' = "received"
    /\ UNCHANGED <<response, trace, prev, genVars>>

\* Yookassa.webhook_handler runs to its response.
webhook_handler ==
    /\ pc = "received"
    /\ LET out == Handle(request)
       IN  /\ response' = out.status
           /\ trace' = out.calls
    /\ pc' = "done"
    /\ UNCHANGED <<request, prev, genVars>>

\* The same notification is delivered again, from any source address, and the
\* provider answers the lookup as before.
Redeliver ==
    /\ pc = "done"
    /\ prev = NoPrev
    /\ prev' = [request |-> request, response |-> response, trace |-> trace]
    /\ \E xff \in HeaderValues, remote \in RemoteValues :
          request' = [request EXCEPT !.x_forwarded_for = xff, !.remote = remote]
    /\ response' = 0
    /\ trace' = <<>>
    /\ pc' = "received"
    /\ UNCHANGED genVars

NextWebhook == Receive \/ webhook_handler
SpecWebhook == InitWebhook /\ [][NextWebhook]_vars

NextRedelivery == Receive \/ webhook_handler \/ Redeliver
SpecRedelivery == InitWebhook /\ [][NextRedelivery]_vars

(***************************************************************************)
(* Legacy promocode generator: collect_legacy_clients                      *)
(***************************************************************************)

\* Rows or clients one run of collect_legacy_clients reads, at most.
MaxClients == 3

\* int(datetime.now(timezone.utc).timestamp() * 1000), read once per run.
NowMs == 1000

MS_PER_DAY == 24 * 60 * 60 * 1000

Days(n) == n * MS_PER_DAY

\* Code points of the characters of the modelled identity strings.
Ord(c) ==
    CASE c = " " -> 32
      [] c = "7" -> 55
      [] c = "B" -> 66
      [] c = "a" -> 97
      [] c = "b" -> 98

\* str.lower(), character by character.
LowerChar(c) == IF c = "B" THEN "b" ELSE c
LowerText(s) == [i \in 1..Len(s) |-> LowerChar(s[i])]

\* str.isdigit(): non-empty and every character a digit.
IsDigit(s) == s # <<>> /\ \A i \in 1..Len(s) : s[i] = "7"

\* Python's < on str: lexicographic by code point, a proper prefix first.
RECURSIVE TextLess(_, _)
TextLess(s, t) ==
    IF t = <<>> THEN FALSE
    ELSE IF s = <<>> THEN TRUE
    ELSE IF Ord(Head(s)) # Ord(Head(t)) THEN Ord(Head(s)) < Ord(Head(t))
    ELSE TextLess(Tail(s), Tail(t))

\* A normalize_days that truncates the quotient instead of taking its ceiling.
normalize_days_Floor(expiry_time_ms, now_ms, min_days) ==
    LET remaining_ms == expiry_time_ms - now_ms
    IN  IF remaining_ms <= 0 THEN 0
        ELSE LET remaining_days == remaining_ms \div MS_PER_DAY
             IN  IF remaining_days < min_days THEN 0 ELSE remaining_days

\* normalize_days: math.ceil(remaining_ms / MS_PER_DAY), 0 when nothing remains or
\* the value is below min_days.
normalize_days(expiry_time_ms, now_ms, min_days) ==
    LET remaining_ms == expiry_time_ms - now_ms
    IN  IF remaining_ms <= 0 THEN 0
        ELSE LET remaining_days == (remaining_ms + MS_PER_DAY - 1) \div MS_PER_DAY
             IN  IF remaining_days < min_days THEN 0 ELSE remaining_days

Max(a, b) == IF a >= b THEN a ELSE b

\* selected.get(email): the positions of the dict that hold the key (none or one).
Lookup(sel, email) == {i \in 1..Len(sel) : sel[i].email = email}

SkipRecord(ib_id, email, client_id, reason) ==
    [inbound_id |-> ib_id, email |-> email, client_id |-> client_id, reason |-> reason]

\* A dict update that lets the latest record of an identity win whatever its days.
Select_LastWins(sel, row) ==
    LET at == Lookup(sel, row.email)
    IN  IF at = {} THEN Append(sel, row)
        ELSE [i \in 1..Len(sel) |-> IF i \in at THEN row ELSE sel[i]]

\* Lines 165-172: the row enters the dict when its identity is new or its days are
\* strictly greater than the held row's; a replaced key keeps its place in the dict.
Select(sel, row) ==
    LET at == Lookup(sel, row.email)
    IN  IF at = {} THEN Append(sel, row)
        ELSE IF \E i \in at : row.days > sel[i].days
        THEN [i \in 1..Len(sel) |-> IF i \in at THEN row ELSE sel[i]]
        ELSE sel

\* A skip branch that continues without recording the record.
Skip_Silent(st, ib_id, email, client_id, reason) ==
    [selected |-> st.selected, skipped |-> st.skipped, days |-> 0, outcome |-> reason]

\* skipped.append({...}); continue (lines 126-134, 142-150, 155-163).
Skip(st, ib_id, email, client_id, reason) ==
    [selected |-> st.selected,
     skipped |-> Append(st.skipped, SkipRecord(ib_id, email, client_id, reason)),
     days |-> 0, outcome |-> reason]

\* Lines 165-172 on a record that was not skipped.
Keep(st, ib_id, email, client_id, days) ==
    LET row == [inbound_id |-> ib_id, email |-> email, client_id |-> client_id,
                days |-> days]
        sel == Select(st.selected, row)
    IN  [selected |-> sel, skipped |-> st.skipped, days |-> days,
         outcome |-> IF row \in {sel[i] : i \in 1..Len(sel)} THEN "selected"
                     ELSE "duplicate_dropped"]

\* One iteration of the loop over settings["clients"] (lines 122-172). Client ids
\* carry no surrounding blanks, so their strip() is not modelled.
CollectClient(st, ib_id, client, a, now_ms) ==
    LET email == Strip(client.email)
        client_id == client.id
        expiry_ms == client.expiryTime
    IN  IF email = <<>> THEN Skip(st, ib_id, <<>>, client_id, "empty_email")
        ELSE IF IsDigit(email) /\ ~a.include_numeric_emails
        THEN [selected |-> st.selected, skipped |-> st.skipped, days |-> 0,
              outcome |-> "numeric_ignored"]
        ELSE IF expiry_ms <= 0
        THEN IF a.unlimited_days = <<>>
             THEN Skip(st, ib_id, email, client_id, "unlimited_skipped")
             ELSE Keep(st, ib_id, email, client_id, Max(a.unlimited_days[1], a.min_days))
        ELSE LET days == normalize_days(expiry_ms, now_ms, a.min_days)
             IN  IF days <= 0
                 THEN Skip(st, ib_id, email, client_id, "expired_or_too_small")
                 ELSE Keep(st, ib_id, email, client_id, days)

\* Lines 109-120: an inbound whose settings are not JSON.
CollectBroken(st, ib_id) ==
    [selected |-> st.selected,
     skipped |-> Append(st.skipped, SkipRecord(ib_id, <<>>, "", "broken_settings_json")),
     days |-> 0, outcome |-> "broken_settings_json"]

\* One row event of the source store: a client of a parsable inbound, or an inbound
\* whose settings blob is broken.
CollectRow(st, rec, a, now_ms) ==
    IF rec.broken THEN CollectBroken(st, rec.inbound_id)
    ELSE CollectClient(st, rec.inbound_id, rec.client, a, now_ms)

\* sorted(selected.values(), key=lambda row: row["email"].lower()): a stable sort.
RECURSIVE SortedRows(_)
SortedRows(rows) ==
    IF rows = <<>> THEN <<>>
    ELSE LET n == Len(rows)
             front == SortedRows(SubSeq(rows, 1, n - 1))
             e == rows[n]
             before == {i \in 1..Len(front) :
                          ~TextLess(LowerText(e.email), LowerText(front[i].email))}
             k == Cardinality(before)
         IN  SubSeq(front, 1, k) \o <<e>> \o SubSeq(front, k + 1, Len(front))

\* The client ids of the store are distinct (UUIDs): the n-th record read carries
\* the n-th id.
ClientIdAt(n) ==
    CASE n = 1 -> "c1" [] n = 2 -> "c2" [] n = 3 -> "c3" [] n = 4 -> "c4" [] OTHER -> "c5"

\* Inbound rows of the source store: one whose settings parse, one whose do not.
ParsableInbounds == {1}
BrokenInbounds == {2}

\* Raw identity strings of the client records: blank, plain, upper-case, numeric.
RawEmails == {<<" ">>, <<"a">>, <<"B">>, <<"7">>}

\* expiryTime values: unlimited, already expired, 5 and 12 days ahead.
ExpiryTimes == {0, NowMs, NowMs + Days(5), NowMs + Days(12)}

\* expiryTime values around the day boundaries.
BoundaryExpiryTimes ==
    {0 - Days(1), 0, 1, NowMs - 1, NowMs, NowMs + 1, NowMs + Days(5),
     NowMs + Days(10) - 1, NowMs + Days(10), NowMs + Days(10) + 1,
     NowMs + Days(10) + 60000, NowMs + Days(11), NowMs + Days(12)}

CollectArgs ==
    [include_numeric_emails : BOOLEAN, inbound_id : {<<>>}, min_days : {1, 6},
     unlimited_days : {<<>>, <<30>>}]

BoundaryArgs ==
    [include_numeric_emails : {FALSE}, inbound_id : {<<>>}, min_days : {0, 1, 5, 10, 11, 12},
     unlimited_days : {<<>>, <<3>>}]

\* The clients of one inbound are read together, and a broken inbound yields one
\* row event and no clients.
ValidStore(db) ==
    /\ \A i, j, k \in 1..Len(db) :
          (i < j /\ j < k /\ db[i].inbound_id = db[k].inbound_id)
              => db[j].inbound_id = db[i].inbound_id
    /\ \A i, j \in 1..Len(db) :
          (i # j /\ db[i].broken) => db[i].inbound_id # db[j].inbound_id

NoClient == [email |-> <<>>, id |-> "", expiryTime |-> 0]

InitCollectWith(A) ==
    /\ WebhookIdle
    /\ gpc = "collect"
    /\ args \in A
    /\ xui_db = <<>>
    /\ selected = <<>>
    /\ skipped = <<>>
    /\ log = <<>>
    /\ last = <<>>
    /\ prepared = <<>>
    /\ existing_codes = {}
    /\ bot_db = <<>>
    /\ bot_db0 = <<>>
    /\ csv = <<>>

\* The cursor yields the next row event and the loop body runs on it.
ReadRow(rec) ==
    /\ gpc = "collect"
    /\ IF args.inbound_id = <<>> THEN TRUE ELSE rec.inbound_id = args.inbound_id[1]
    /\ ValidStore(Append(xui_db, rec))
    /\ LET out == CollectRow([selected |-> selected, skipped |-> skipped], rec, args, NowMs)
       IN  /\ selected' = out.selected
           /\ skipped' = out.skipped
           /\ log' = Append(log, [rec |-> rec, days |-> out.days, outcome |-> out.outcome])
    /\ xui_db' = Append(xui_db, rec)
    /\ UNCHANGED <<gpc, args, last, prepared, existing_codes, bot_db, bot_db0, csv, whVars>>

ReadClient(emails, expiries) ==
    \E ib \in ParsableInbounds, email \in emails, expiry \in expiries :
        ReadRow([inbound_id |-> ib, broken |-> FALSE,
                 client |-> [email |-> email, id |-> ClientIdAt(Len(xui_db) + 1),
                             expiryTime |-> expiry]])

ReadBrokenInbound ==
    \E ib \in BrokenInbounds :
        ReadRow([inbound_id |-> ib, broken |-> TRUE, client |-> NoClient])

\* Lines 174-175: the rows are exhausted; the dict's values are sorted and returned.
FinishCollect ==
    /\ gpc = "collect"
    /\ prepared' = SortedRows(selected)
    /\ gpc' = "collected"
    /\ UNCHANGED <<args, xui_db, selected, skipped, log, last, existing_codes, bot_db,
                   bot_db0, csv, whVars>>

InitCollect == InitCollectWith(CollectArgs)

NextCollect ==
    \/ (Len(xui_db) < MaxClients /\ ReadClient(RawEmails, ExpiryTimes))
    \/ (Len(xui_db) < MaxClients /\ ReadBrokenInbound)
    \/ FinishCollect

SpecCollect == InitCollect /\ [][NextCollect]_vars

InitDays == InitCollectWith(BoundaryArgs)

\* normalize_days is called on its own, on any expiry and threshold.
CallNormalizeDays ==
    /\ gpc = "collect"
    /\ last = <<>>
    /\ \E expiry \in BoundaryExpiryTimes, min_days \in {a.min_days : a \in BoundaryArgs} :
          last' = <<[expiry_time_ms |-> expiry, now_ms |-> NowMs, min_days |-> min_days,
                     result |-> normalize_days(expiry, NowMs, min_days)]>>
    /\ UNCHANGED <<gpc, args, xui_db, selected, skipped, log, prepared, existing_codes,
                   bot_db, bot_db0, csv, whVars>>

NextDays ==
    \/ CallNormalizeDays
    \/ (xui_db = <<>> /\ ReadClient({<<"a">>}, BoundaryExpiryTimes))
    \/ FinishCollect

SpecDays == InitDays /\ [][NextDays]_vars

(***************************************************************************)
(* Legacy promocode generator: main                                        *)
(***************************************************************************)

\* Row events of the source store in one run of main, at most.
MaxStoreClients == 2

\* Characters of CHARSET (string.ascii_uppercase + string.digits) that are modelled.
CharsetSize == 2

Alphabet == <<"A", "B", "C", "D", "E", "F">>
CHARSET == {Alphabet[i] : i \in 1..CharsetSize}

\* str.upper() of one character; the sharp s becomes two characters.
UpperChar(c) ==
    CASE c = "m" -> <<"M">>
      [] c = "ß" -> <<"S", "S">>
      [] OTHER -> <<c>>

RECURSIVE Upper(_)
Upper(s) == IF s = <<>> THEN <<>> ELSE UpperChar(Head(s)) \o Upper(Tail(s))

\* A suffix length that lets the prefix use up the whole code.
SuffixLen_NoFloor(prefix, total_length) == Max(total_length - Len(prefix), 0)

\* suffix_len = max(total_length - len(prefix), 1), on the upper-cased prefix.
SuffixLen(prefix, total_length) == Max(total_length - Len(prefix), 1)

\* A membership test that accepts every draw.
IsFree_Always(code, codes) == TRUE

\* if code not in existing_codes
IsFree(code, codes) == code \notin codes

\* generate_code: the draws of "".join(secrets.choice(CHARSET) ...) are any text of
\* suffix_len characters of CHARSET; the loop returns the first draw whose code is
\* not in existing_codes, with that code added to the set, and never returns when
\* no such draw exists.
GenerateCodeResults(codes, code_prefix, total_length) ==
    LET prefix == Upper(code_prefix)
        suffix_len == SuffixLen(prefix, total_length)
        draws == {s \in SeqsUpTo(CHARSET, suffix_len) : Len(s) = suffix_len}
    IN  {[code |-> prefix \o suffix, existing_codes |-> codes \cup {prefix \o suffix}] :
            suffix \in {s \in draws : IsFree(prefix \o s, codes)}}

\* SELECT id, settings FROM inbounds [WHERE id = ?]
SelectInbounds(db, inbound_id) ==
    IF inbound_id = <<>> THEN db
    ELSE SelectSeq(db, LAMBDA rec : rec.inbound_id = inbound_id[1])

\* The loop of collect_legacy_clients (lines 108-172) over the selected rows.
RECURSIVE CollectRows(_, _, _)
CollectRows(rows, a, now_ms) ==
    IF rows = <<>> THEN [selected |-> <<>>, skipped |-> <<>>, log |-> <<>>]
    ELSE LET n == Len(rows)
             st == CollectRows(SubSeq(rows, 1, n - 1), a, now_ms)
             out == CollectRow(st, rows[n], a, now_ms)
         IN  [selected |-> out.selected, skipped |-> out.skipped,
              log |-> Append(st.log, [rec |-> rows[n], days |-> out.days,
                                      outcome |-> out.outcome])]

\* write_csv: one row per prepared row, then one per skipped row (empty days and
\* promocode cells are the empty tuple).
CsvRows(rows, skipped_rows) ==
    [i \in 1..Len(rows) |->
        [email |-> rows[i].email, inbound_id |-> rows[i].inbound_id,
         client_id |-> rows[i].client_id, days |-> <<rows[i].days>>,
         promocode |-> rows[i].promocode, status |-> "prepared"]]
    \o
    [i \in 1..Len(skipped_rows) |->
        [email |-> skipped_rows[i].email, inbound_id |-> skipped_rows[i].inbound_id,
         client_id |-> skipped_rows[i].client_id, days |-> <<>>,
         promocode |-> <<>>, status |-> "skipped:" \o skipped_rows[i].reason]]

PromoRow(code, duration, is_activated, activated_by) ==
    [code |-> code, duration |-> duration, is_activated |-> is_activated,
     activated_by |-> activated_by]

\* insert_promocodes: INSERT ... VALUES (?, ?, 0, NULL, datetime('now')) per row.
InsertedRows(rows) ==
    [i \in 1..Len(rows) |-> PromoRow(rows[i].promocode, rows[i].days, 0, None)]

\* A commit that ignores the dry-run toggle.
WritesToBotDb_Always(a) == TRUE

\* if args.dry_run: print(...) else: insert_promocodes(...)
WritesToBotDb(a) == ~a.dry_run

\* The rows still waiting for their promocode, in list order.
Uncoded(rows) == {k \in 1..Len(rows) : "promocode" \notin DOMAIN rows[k]}

MainArgs ==
    [include_numeric_emails : {FALSE}, inbound_id : {<<>>, <<1>>}, min_days : {1},
     unlimited_days : {<<>>}, code_prefix : {<<>>, <<"m">>, <<"ß">>},
     code_length : {1, 2}, dry_run : BOOLEAN]

\* Row events a source store may hold: clients "a" (5 or 12 days ahead), "B" and "b"
\* (5 days ahead) of the parsable inbound, and the broken inbound.
MainClients ==
    {[email |-> <<"a">>, expiryTime |-> NowMs + Days(5)],
     [email |-> <<"a">>, expiryTime |-> NowMs + Days(12)],
     [email |-> <<"B">>, expiryTime |-> NowMs + Days(5)],
     [email |-> <<"b">>, expiryTime |-> NowMs + Days(5)]}

MainRowEvents(n) ==
    {[inbound_id |-> ib, broken |-> FALSE,
      client |-> [email |-> c.email, id |-> ClientIdAt(n), expiryTime |-> c.expiryTime]] :
        ib \in ParsableInbounds, c \in MainClients}
    \cup {[inbound_id |-> ib, broken |-> TRUE, client |-> NoClient] : ib \in BrokenInbounds}

RECURSIVE MainStores(_)
MainStores(n) ==
    IF n = 0 THEN {<<>>}
    ELSE LET shorter == MainStores(n - 1)
         IN  shorter \cup
             {db \in {Append(d, r) : d \in {t \in shorter : Len(t) = n - 1},
                                     r \in MainRowEvents(n)} : ValidStore(db)}

\* The promocodes table before the run: empty, or holding codes of earlier runs.
InitialTables ==
    {<<>>,
     <<PromoRow(<<"M", "A">>, 30, 1, "42")>>,
     <<PromoRow(<<"M", "A">>, 30, 1, "42"), PromoRow(<<"A", "A">>, 7, 0, None)>>}

InitMain ==
    /\ WebhookIdle
    /\ gpc = "start"
    /\ args \in MainArgs
    /\ xui_db \in MainStores(MaxStoreClients)
    /\ selected = <<>>
    /\ skipped = <<>>
    /\ log = <<>>
    /\ last = <<>>
    /\ prepared = <<>>
    /\ existing_codes = {}
    /\ bot_db \in InitialTables
    /\ bot_db0 = bot_db
    /\ csv = <<>>

\* main, lines 260-266: collect_legacy_clients runs to its return.
collect_legacy_clients ==
    /\ gpc = "start"
    /\ LET out == CollectRows(SelectInbounds(xui_db, args.inbound_id), args, NowMs)
       IN  /\ selected' = out.selected
           /\ skipped' = out.skipped
           /\ log' = out.log
           /\ prepared' = SortedRows(out.selected)
    /\ gpc' = "collected"
    /\ UNCHANGED <<args, xui_db, last, existing_codes, bot_db, bot_db0, csv, whVars>>

\* main, line 268: load_existing_codes reads the code column of the table.
load_existing_codes ==
    /\ gpc = "collected"
    /\ existing_codes' = {bot_db[i].code : i \in 1..Len(bot_db)}
    /\ gpc' = "assign"
    /\ UNCHANGED <<args, xui_db, selected, skipped, log, last, prepared, bot_db, bot_db0,
                   csv, whVars>>

\* main, lines 269-274: generate_code returns the next row's promocode.
generate_code ==
    /\ gpc = "assign"
    /\ Uncoded(prepared) # {}
    /\ LET k == CHOOSE i \in Uncoded(prepared) : \A j \in Uncoded(prepared) : i <= j
       IN  \E r \in GenerateCodeResults(existing_codes, args.code_prefix, args.code_length) :
              /\ prepared' = [prepared EXCEPT ![k] = [promocode |-> r.code] @@ prepared[k]]
              /\ existing_codes' = r.existing_codes
    /\ UNCHANGED <<gpc, args, xui_db, selected, skipped, log, last, bot_db, bot_db0, csv,
                   whVars>>

\* main, line 276: write_csv writes the report.
write_csv ==
    /\ gpc = "assign"
    /\ Uncoded(prepared) = {}
    /\ csv' = CsvRows(prepared, skipped)
    /\ gpc' = "written"
    /\ UNCHANGED <<args, xui_db, selected, skipped, log, last, prepared, existing_codes,
                   bot_db, bot_db0, whVars>>

\* main, lines 280-282: insert_promocodes inserts and commits.
insert_promocodes ==
    /\ gpc = "written"
    /\ WritesToBotDb(args)
    /\ bot_db' = bot_db \o InsertedRows(prepared)
    /\ gpc' = "done"
    /\ UNCHANGED <<args, xui_db, selected, skipped, log, last, prepared, existing_codes,
                   bot_db0, csv, whVars>>

\* main, lines 278-279: the dry run only prints.
dry_run_notice ==
    /\ gpc = "written"
    /\ ~WritesToBotDb(args)
    /\ gpc' = "done"
    /\ UNCHANGED <<args, xui_db, selected, skipped, log, last, prepared, existing_codes,
                   bot_db, bot_db0, csv, whVars>>

NextMain ==
    \/ collect_legacy_clients
    \/ load_existing_codes
    \/ generate_code
    \/ write_csv
    \/ insert_promocodes
    \/ dry_run_notice

SpecMain == InitMain /\ [][NextMain]_vars

(***************************************************************************)
(* Claims about the webhook adapter                                        *)
(***************************************************************************)

HasPaymentId(req) == req.body.parsable /\ req.body.payment_id \notin {None, ""}

\* The provider's answer agrees with the claimed event type, as the claims word it.
RemoteMatches(req) ==
    /\ ~req.lookup.raises
    /\ \/ /\ req.body.event = PAYMENT_SUCCEEDED
          /\ req.lookup.status = "succeeded"
          /\ req.lookup.paid = "True"
       \/ /\ req.body.event = PAYMENT_CANCELED
          /\ req.lookup.status = "canceled"

Updates(tr) == {i \in 1..Len(tr) : tr[i].op \in {"handle_payment_succeeded", "handle_payment_canceled"}}
LookupsMade(tr) == {i \in 1..Len(tr) : tr[i].op = "find_one"}
CallsOf(tr, op) == Cardinality({i \in 1..Len(tr) : tr[i].op = op})

C3_SourceAddressNeverGates ==
    (pc = "done" /\ prev # NoPrev) =>
        /\ response = prev.response
        /\ trace = prev.trace
        /\ HasPaymentId(request) =>
              (LookupsMade(trace) # {} /\ LookupsMade(prev.trace) # {})

\* C4: a parsable request with a payment id whose event is neither payment.succeeded
\* nor payment.canceled is answered 400 whatever the lookup returns, with no status
\* update.
C4_UnrecognizedEventReturns400 ==
    (pc = "done" /\ HasPaymentId(request)
       /\ request.body.event \notin {PAYMENT_SUCCEEDED, PAYMENT_CANCELED}) =>
        (response = 400 /\ Updates(trace) = {})

(***************************************************************************)
(* Claims about collect_legacy_clients and normalize_days                  *)
(***************************************************************************)

\* The records considered as candidates: every client of a parsable inbound except
\* the numeric identities the default filter excludes.
Candidates ==
    {i \in 1..Len(xui_db) :
        /\ ~xui_db[i].broken
        /\ ~(IsDigit(Strip(xui_db[i].client.email)) /\ ~args.include_numeric_emails)}

InPrepared(i) == {k \in 1..Len(prepared) : prepared[k].client_id = xui_db[i].client.id}
InSkipped(i) == {k \in 1..Len(skipped) : skipped[k].client_id = xui_db[i].client.id}

\* C5 (as claimed): when collect_legacy_clients has finished, every candidate record
\* is in exactly one of the prepared list and the skipped list, the records that
\* share an identity string with another record included.
C5_EveryCandidateAccountedOnce ==
    gpc = "collected" =>
        \A i \in Candidates : Cardinality(InPrepared(i)) + Cardinality(InSkipped(i)) = 1

\* C5 (amended): when collect_legacy_clients has finished, every candidate record is
\* in at most one of the prepared list and the skipped list (once, and skipped with
\* one of the four reasons); a candidate in neither shares its identity string with
\* another record, which is the one the prepared list holds for that identity.
C5_CandidateAccountedOrSuperseded ==
    gpc = "collected" =>
        \A i \in Candidates :
            /\ Cardinality(InPrepared(i)) + Cardinality(InSkipped(i)) <= 1
            /\ \A k \in InSkipped(i) :
                  skipped[k].reason \in {"empty_email", "unlimited_skipped", "expired_or_too_small"}
            /\ (InPrepared(i) = {} /\ InSkipped(i) = {}) =>
                  \E k \in 1..Len(prepared) :
                      /\ prepared[k].email = Strip(xui_db[i].client.email)
                      /\ prepared[k].client_id # xui_db[i].client.id

C5_Witness ==
    /\ gpc = "collected"
    /\ Len(xui_db) = 3
    /\ Candidates = {1, 2, 3}
    /\ InPrepared(1) = {} /\ InSkipped(1) = {}
    /\ InPrepared(2) # {}
    /\ InSkipped(3) # {}
    /\ Strip(xui_db[1].client.email) = Strip(xui_db[2].client.email)

KeptOf(email) ==
    {i \in 1..Len(log) :
        /\ log[i].outcome \in {"selected", "duplicate_dropped"}
        /\ Strip(log[i].rec.client.email) = email}

KeptEmails ==
    {Strip(log[i].rec.client.email) :
        i \in {j \in 1..Len(log) : log[j].outcome \in {"selected", "duplicate_dropped"}}}

\* C10: when collect_legacy_clients has finished, the prepared list holds at most one
\* entry per identity string; the entry's days are the maximum of the remaining
\* days of the non-skipped records with that identity, and the entry is the
\* earliest record that reached that maximum (a later record with equal days does
\* not replace it).
C10_DuplicateKeepsMaxDays ==
    gpc = "collected" =>
        /\ \A k, m \in 1..Len(prepared) : prepared[k].email = prepared[m].email => k = m
        /\ {prepared[k].email : k \in 1..Len(prepared)} = KeptEmails
        /\ \A k \in 1..Len(prepared) :
              LET kept == KeptOf(prepared[k].email)
                  best == {i \in kept : \A j \in kept : log[j].days <= log[i].days}
                  first == CHOOSE i \in best : \A j \in best : i <= j
              IN  /\ prepared[k].days = log[first].days
                  /\ prepared[k].client_id = log[first].rec.client.id
                  /\ prepared[k].inbound_id = log[first].rec.inbound_id

C10_Witness ==
    /\ gpc = "collected"
    /\ Len(log) = 3
    /\ log[1].days = 5 /\ log[2].days = 12 /\ log[3].days = 12
    /\ log[1].rec.client.email = log[2].rec.client.email
    /\ log[2].rec.client.email = log[3].rec.client.email
    /\ Len(prepared) = 1
    /\ prepared[1].days = 12
    /\ prepared[1].client_id = "c2"

(***************************************************************************)
(* Claims about generate_code and main                                     *)
(***************************************************************************)

InitialCodes == {bot_db0[i].code : i \in 1..Len(bot_db0)}
Coded == {k \in 1..Len(prepared) : "promocode" \in DOMAIN prepared[k]}
AssignedCodes == {prepared[k].promocode : k \in Coded}

IsPrefixOf(p, s) == Len(p) <= Len(s) /\ SubSeq(s, 1, Len(p)) = p

\* C6: in one run the codes returned by the successive generate_code calls are
\* pairwise distinct, none of them is a code the target store already held, and the
\* accumulated set holds every code it held before together with the codes
\* returned so far.
C6_CodesAreFresh ==
    gpc \in {"assign", "written", "done"} =>
        /\ \A k, m \in Coded : prepared[k].promocode = prepared[m].promocode => k = m
        /\ AssignedCodes \cap InitialCodes = {}
        /\ existing_codes = InitialCodes \cup AssignedCodes

C6_Witness ==
    /\ gpc = "assign"
    /\ Len(prepared) = 2
    /\ Coded = {1, 2}
    /\ <<"A", "A">> \in InitialCodes
    /\ prepared[1].promocode = <<"B", "A">>
    /\ prepared[2].promocode = <<"A", "B">>
    /\ existing_codes = InitialCodes \cup {<<"B", "A">>, <<"A", "B">>}

WithoutCode(rows) ==
    [i \in 1..Len(rows) |->
        [email |-> rows[i].email, inbound_id |-> rows[i].inbound_id,
         client_id |-> rows[i].client_id, days |-> rows[i].days, status |-> rows[i].status]]

\* What a run without the dry-run toggle reports on the same source store and
\* arguments, promocode column aside.
WetReport ==
    LET a == [args EXCEPT !.dry_run = FALSE]
        out == CollectRows(SelectInbounds(xui_db, a.inbound_id), a, NowMs)
        rows == SortedRows(out.selected)
    IN  [i \in 1..Len(rows) |->
            [email |-> rows[i].email, inbound_id |-> rows[i].inbound_id,
             client_id |-> rows[i].client_id, days |-> <<rows[i].days>>,
             status |-> "prepared"]]
        \o
        [i \in 1..Len(out.skipped) |->
            [email |-> out.skipped[i].email, inbound_id |-> out.skipped[i].inbound_id,
             client_id |-> out.skipped[i].client_id, days |-> <<>>,
             status |-> "skipped:" \o out.skipped[i].reason]]

PreparedCsvRows == {i \in 1..Len(csv) : csv[i].status = "prepared"}

\* C9: a dry run never writes to the promocodes table, and its report has the rows
\* of a run without the toggle on the same inputs, one code per prepared row;
\* without the toggle the finished run has appended exactly one unactivated row per
\* prepared candidate, with that candidate's code and days.
C9_DryRunWritesNothing ==
    /\ args.dry_run => bot_db = bot_db0
    /\ gpc \in {"written", "done"} =>
          /\ WithoutCode(csv) = WetReport
          /\ \A i \in PreparedCsvRows : csv[i].promocode = prepared[i].promocode
          /\ \A i, j \in PreparedCsvRows : csv[i].promocode = csv[j].promocode => i = j
    /\ (gpc = "done" /\ ~args.dry_run) =>
          /\ Len(bot_db) = Len(bot_db0) + Len(prepared)
          /\ SubSeq(bot_db, 1, Len(bot_db0)) = bot_db0
          /\ \A k \in 1..Len(prepared) :
                bot_db[Len(bot_db0) + k] =
                    PromoRow(prepared[k].promocode, prepared[k].days, 0, None)
    /\ (gpc # "done" /\ gpc # "off") => bot_db = bot_db0

C9_Witness ==
    /\ gpc = "done"
    /\ args.dry_run
    /\ Len(prepared) = 2
    /\ Len(csv) = 2
    /\ bot_db0 # <<>>
    /\ bot_db = bot_db0

=============================================================================
